---------------------------- MODULE Spec2Model ----------------------------
(***************************************************************************)
(* PromQueryField (public/app/plugins/datasource/prometheus/components/    *)
(* PromQueryField.tsx): the query-assistance controller of the Prometheus  *)
(* query editor.  The component's props, its React state, the cancelable   *)
(* language-provider loads it has issued and the AI-help requests it has   *)
(* in flight are the state; every lifecycle callback, event handler and    *)
(* promise continuation is one action.                                     *)
(*                                                                         *)
(* this.setState(u) is modelled as the merge of u into `state`: the        *)
(* handlers below run on one execution context, so a handler up to its     *)
(* next await is one atomic step.                                          *)
(***************************************************************************)
EXTENDS Integers, Sequences, FiniteSets, TLC

VARIABLES
    lifecycle,   \* "constructed" | "mounted" | "unmounted"
    provider,    \* props.datasource.languageProvider (its identity)
    range,       \* props.range
    data,        \* props.data
    expr,        \* props.query.expr
    state,       \* this.state (PromQueryFieldState)
    loads,       \* every refreshMetrics call made so far, oldest first
    current,     \* this.languageProviderInitializationPromise (index into loads, 0 = unset)
    requests,    \* openai.createChatCompletion calls awaiting their response
    hintInputs,  \* what the last refreshHint read from the datasource and from props.data
    out,         \* what the last handler did towards its host
    typeahead    \* the last willApplySuggestion call: its arguments and its result

vars == <<lifecycle, provider, range, data, expr, state, loads, current,
          requests, hintInputs, out, typeahead>>

-----------------------------------------------------------------------------
(* Bounds *)

\* refreshMetrics calls per behaviour
MaxLoads == 3
\* createChatCompletion calls that may be outstanding before the model stops issuing more
MaxRequests == 2

-----------------------------------------------------------------------------
(* Values *)

Undefined == "undefined"

\* language provider identities
Providers == {1, 2}

\* one minute in milliseconds (language_utils.roundMsToMin)
MsPerMin == 60000

\* instants (ms) around a minute boundary
Instants == {MsPerMin - 1, MsPerMin, MsPerMin + 1}

NoRange == [defined |-> FALSE]
Ranges == {r \in [defined : {TRUE}, from : Instants, to : Instants] : r.from <= r.to}

\* query texts, and the texts the AI service may return ("" is the empty string)
Texts == {"", "up", "rate"}

\* data.errors: each element's message, Undefined when the error has none
ErrorLists == {<<>>, <<Undefined>>, <<Undefined, "bad_data">>}

\* identities of props.data.series collections
SeriesIds == {1, 2}
\* the number of series in the collection with identity id
SeriesLength(id) == id - 1

NoData == [defined |-> FALSE]
Datas == {[defined |-> TRUE, series |-> s, errors |-> e] : s \in SeriesIds, e \in ErrorLists}

\* QueryHint: fix is "none" (no fix), "noAction" (a fix without action) or "action"
NoHint == [label |-> "null", fix |-> "none"]
InitHintLists == {<<>>, <<[label |-> "i1", fix |-> "action"], [label |-> "i2", fix |-> "none"]>>}
QueryHintLists == {<<>>, <<[label |-> "q1", fix |-> "noAction"], [label |-> "q2", fix |-> "action"]>>}

NoCalls == <<>>
\* arg: what the awaited promise settled with, when the step is the continuation of an
\* await (Rejected; for createChatCompletion also the response it resolved with)
NoArg == [choice |-> "", content |-> ""]
Rejected == [choice |-> "rejected", content |-> ""]
Out(h, c, t) == [handler |-> h, calls |-> c, threw |-> t, arg |-> NoArg]
OnChangeCall(e) == [fn |-> "onChange", expr |-> e]
OnRunQueryCall == [fn |-> "onRunQuery", expr |-> ""]

\* texts as sequences of characters, for willApplySuggestion
DQ == "\""
Suggestions == {<<"u", "p">>, <<"n", "o", "d", "e">>}
Contexts == {"context-labels", "context-label-values", "context-aggregation"}
\* SuggestionsState.typeaheadText
TypedTexts ==
    {<<>>, <<"n">>, <<"n", DQ>>, <<"=">>, <<"~", DQ>>,
     <<DQ>>, <<DQ, "n">>, <<"=", DQ>>, <<"!", "=", DQ>>, <<"=", "~", DQ>>,
     <<"!", "~", DQ>>, <<"!", "=", "~", DQ>>}
\* DOMUtil.getNextCharacter(): "" when there is none
NextChars == {"", "}", ",", DQ, "x"}
NoTypeahead == [suggestion |-> <<>>, context |-> "", text |-> <<>>, nextChar |-> "",
                result |-> <<>>]

-----------------------------------------------------------------------------
(* Pure helpers *)

roundMsToMin(ms) == ms \div MsPerMin

rangeChangedToRefresh_either(r, prevRange) ==
    IF r.defined /\ prevRange.defined
    THEN LET sameMinuteFrom == roundMsToMin(r.from) = roundMsToMin(prevRange.from)
             sameMinuteTo == roundMsToMin(r.to) = roundMsToMin(prevRange.to)
         IN  ~(sameMinuteFrom \/ sameMinuteTo)
    ELSE FALSE

rangeChangedToRefresh(r, prevRange) ==
    IF r.defined /\ prevRange.defined
    THEN LET sameMinuteFrom == roundMsToMin(r.from) = roundMsToMin(prevRange.from)
             sameMinuteTo == roundMsToMin(r.to) = roundMsToMin(prevRange.to)
         IN  ~(sameMinuteFrom /\ sameMinuteTo)
    ELSE FALSE

\* languageProvider.metrics: the provider keeps an array, so it is never undefined
metricsDefined(p) == p \in Providers

\* makePromiseCancelable(languageProvider.start()): a load awaiting the bootstrap
makePromiseCancelable(p) == [provider |-> p, phase |-> "start", hasCanceled |-> FALSE]

First(seq) == IF Len(seq) > 0 THEN seq[1] ELSE NoHint

hasErrors(d) == d.defined /\ Len(d.errors) > 0

\* setState({syntaxLoaded: true}) unless the current provider has no metrics
onUpdateLanguage(st, p) ==
    IF ~metricsDefined(p) THEN st ELSE [st EXCEPT !.syntaxLoaded = TRUE]

\* the hint refreshHint sets, from the data and what the datasource returned
refreshHint_initFirst(d, initHints, queryHints) ==
    LET initHint == First(initHints)
    IN  IF ~d.defined \/ SeriesLength(d.series) = 0
        THEN initHint
        ELSE IF initHint # NoHint THEN initHint ELSE First(queryHints)

refreshHint(d, initHints, queryHints) ==
    LET initHint == First(initHints)
    IN  IF ~d.defined \/ SeriesLength(d.series) = 0
        THEN initHint
        ELSE LET queryHint == First(queryHints)
             IN  IF queryHint # NoHint THEN queryHint ELSE initHint

\* what refreshHint read: getQueryHints is not called when there are no series
HintInputs(d, initHints, queryHints) ==
    LET noSeries == ~d.defined \/ SeriesLength(d.series) = 0
    IN  [initHints |-> initHints,
         queryHints |-> IF noSeries THEN <<>> ELSE queryHints,
         noSeries |-> noSeries]

-----------------------------------------------------------------------------
(* Construction *)

Init ==
    /\ lifecycle = "constructed"
    /\ provider \in Providers
    /\ range \in Ranges \cup {NoRange}
    /\ data \in Datas \cup {NoData}
    /\ expr \in Texts
    /\ state = [labelBrowserVisible |-> FALSE, syntaxLoaded |-> FALSE, hint |-> NoHint,
                hasError |-> FALSE, aiHelp |-> "", loadingAiHelp |-> FALSE,
                showAiHelpModal |-> FALSE]
    /\ loads = <<>>
    /\ current = 0
    /\ requests = <<>>
    /\ hintInputs = [initHints |-> <<>>, queryHints |-> <<>>, noSeries |-> TRUE]
    /\ out = Out("constructor", NoCalls, FALSE)
    /\ typeahead = NoTypeahead

-----------------------------------------------------------------------------
(* Lifecycle *)

componentDidMount ==
    /\ lifecycle = "constructed"
    /\ lifecycle' = "mounted"
    /\ IF provider \in Providers
       THEN /\ loads' = Append(loads, makePromiseCancelable(provider))
            /\ current' = Len(loads) + 1
       ELSE UNCHANGED <<loads, current>>
    /\ \E ih \in InitHintLists, qh \in QueryHintLists :
          /\ state' = [state EXCEPT !.hint = refreshHint(data, ih, qh)]
          /\ hintInputs' = HintInputs(data, ih, qh)
    /\ out' = Out("componentDidMount", NoCalls, FALSE)
    /\ UNCHANGED typeahead
    /\ UNCHANGED <<provider, range, data, expr, requests>>

componentWillUnmount ==
    /\ lifecycle = "mounted"
    /\ lifecycle' = "unmounted"
    /\ IF current # 0
       THEN loads' = [loads EXCEPT ![current].hasCanceled = TRUE]
       ELSE UNCHANGED loads
    /\ out' = Out("componentWillUnmount", NoCalls, FALSE)
    /\ UNCHANGED typeahead
    /\ UNCHANGED <<provider, range, data, expr, state, current, requests, hintInputs>>

componentDidUpdate_refreshOnData(newProvider, newRange, newData) ==
    /\ lifecycle = "mounted"
    /\ LET providerChanged == newProvider # provider
           changedRangeToRefresh == rangeChangedToRefresh(newRange, range)
           hintRefresh == newData.defined /\ data.defined /\ data.series # newData.series
           refresh == providerChanged \/ changedRangeToRefresh \/ hintRefresh
           prevError == hasErrors(data)
           currentError == hasErrors(newData)
           s1 == IF providerChanged THEN [state EXCEPT !.syntaxLoaded = FALSE] ELSE state
       IN  /\ refresh => Len(loads) < MaxLoads
           /\ IF refresh
              THEN /\ loads' = Append(loads, makePromiseCancelable(newProvider))
                   /\ current' = Len(loads) + 1
              ELSE UNCHANGED <<loads, current>>
           /\ \E ih \in InitHintLists, qh \in QueryHintLists :
                 LET s2 == IF hintRefresh
                           THEN [s1 EXCEPT !.hint = refreshHint(newData, ih, qh)]
                           ELSE s1
                 IN  /\ state' = IF prevError # currentError
                                 THEN [s2 EXCEPT !.hasError = currentError]
                                 ELSE s2
                     /\ hintInputs' = IF hintRefresh
                                      THEN HintInputs(newData, ih, qh)
                                      ELSE hintInputs
    /\ provider' = newProvider
    /\ range' = newRange
    /\ data' = newData
    /\ out' = Out("componentDidUpdate", NoCalls, FALSE)
    /\ UNCHANGED typeahead
    /\ UNCHANGED <<lifecycle, expr, requests>>

componentDidUpdate(newProvider, newRange, newData) ==
    /\ lifecycle = "mounted"
    /\ LET providerChanged == newProvider # provider
           changedRangeToRefresh == rangeChangedToRefresh(newRange, range)
           refresh == providerChanged \/ changedRangeToRefresh
           hintRefresh == newData.defined /\ data.defined /\ data.series # newData.series
           prevError == hasErrors(data)
           currentError == hasErrors(newData)
           s1 == IF providerChanged THEN [state EXCEPT !.syntaxLoaded = FALSE] ELSE state
       IN  /\ refresh => Len(loads) < MaxLoads
           /\ IF refresh
              THEN /\ loads' = Append(loads, makePromiseCancelable(newProvider))
                   /\ current' = Len(loads) + 1
              ELSE UNCHANGED <<loads, current>>
           /\ \E ih \in InitHintLists, qh \in QueryHintLists :
                 LET s2 == IF hintRefresh
                           THEN [s1 EXCEPT !.hint = refreshHint(newData, ih, qh)]
                           ELSE s1
                 IN  /\ state' = IF prevError # currentError
                                 THEN [s2 EXCEPT !.hasError = currentError]
                                 ELSE s2
                     /\ hintInputs' = IF hintRefresh
                                      THEN HintInputs(newData, ih, qh)
                                      ELSE hintInputs
    /\ provider' = newProvider
    /\ range' = newRange
    /\ data' = newData
    /\ out' = Out("componentDidUpdate", NoCalls, FALSE)
    /\ UNCHANGED typeahead
    /\ UNCHANGED <<lifecycle, expr, requests>>

-----------------------------------------------------------------------------
(* refreshMetrics after its first await: the continuations of load i *)

\* languageProvider.start() resolved; tasksPending: some returned task is still pending
StartResolved(i, tasksPending) ==
    /\ i \in 1..Len(loads)
    /\ loads[i].phase = "start"
    /\ IF loads[i].hasCanceled
       THEN \* the wrapper rejects with {isCanceled: true}; the catch swallows it
            /\ loads' = [loads EXCEPT ![i].phase = "canceled"]
            /\ UNCHANGED state
       ELSE IF tasksPending
            THEN /\ loads' = [loads EXCEPT ![i].phase = "tasks"]
                 /\ UNCHANGED state
            ELSE /\ loads' = [loads EXCEPT ![i].phase = "updated"]
                 /\ state' = onUpdateLanguage(state, provider)
    /\ out' = Out("refreshMetrics", NoCalls, FALSE)
    /\ UNCHANGED typeahead
    /\ UNCHANGED <<lifecycle, provider, range, data, expr, current, requests, hintInputs>>

\* languageProvider.start() rejected
StartRejected(i) ==
    /\ i \in 1..Len(loads)
    /\ loads[i].phase = "start"
    /\ IF loads[i].hasCanceled
       THEN /\ loads' = [loads EXCEPT ![i].phase = "canceled"]
            /\ out' = [Out("refreshMetrics", NoCalls, FALSE) EXCEPT !.arg = Rejected]
       ELSE /\ loads' = [loads EXCEPT ![i].phase = "thrown"]
            /\ out' = [Out("refreshMetrics", NoCalls, TRUE) EXCEPT !.arg = Rejected]
    /\ UNCHANGED typeahead
    /\ UNCHANGED <<lifecycle, provider, range, data, expr, state, current, requests, hintInputs>>

\* Promise.all(remainingTasks) resolved
TasksResolved(i) ==
    /\ i \in 1..Len(loads)
    /\ loads[i].phase = "tasks"
    /\ loads' = [loads EXCEPT ![i].phase = "updated"]
    /\ state' = onUpdateLanguage(state, provider)
    /\ out' = Out("refreshMetrics", NoCalls, FALSE)
    /\ UNCHANGED typeahead
    /\ UNCHANGED <<lifecycle, provider, range, data, expr, current, requests, hintInputs>>

\* Promise.all(remainingTasks) rejected: the error is not a cancelable-promise rejection
TasksRejected(i) ==
    /\ i \in 1..Len(loads)
    /\ loads[i].phase = "tasks"
    /\ loads' = [loads EXCEPT ![i].phase = "thrown"]
    /\ out' = [Out("refreshMetrics", NoCalls, TRUE) EXCEPT !.arg = Rejected]
    /\ UNCHANGED typeahead
    /\ UNCHANGED <<lifecycle, provider, range, data, expr, state, current, requests, hintInputs>>

-----------------------------------------------------------------------------
(* Query edits and hint fixes *)

onChangeQuery_keepsHelp(value) ==
    /\ lifecycle = "mounted"
    /\ expr' = value
    /\ out' = Out("onChangeQuery", <<OnChangeCall(value)>>, FALSE)
    /\ UNCHANGED typeahead
    /\ UNCHANGED <<lifecycle, provider, range, data, state, loads, current, requests,
                   hintInputs>>

onChangeQuery_runs(value) ==
    /\ lifecycle = "mounted"
    /\ expr' = value
    /\ state' = [state EXCEPT !.aiHelp = ""]
    /\ out' = Out("onChangeQuery", <<OnChangeCall(value), OnRunQueryCall>>, FALSE)
    /\ UNCHANGED typeahead
    /\ UNCHANGED <<lifecycle, provider, range, data, loads, current, requests, hintInputs>>

\* the editor reports a text edit: onChangeQuery(value), override undefined
onChangeQuery(value) ==
    /\ lifecycle = "mounted"
    /\ expr' = value
    /\ state' = [state EXCEPT !.aiHelp = ""]
    /\ out' = Out("onChangeQuery", <<OnChangeCall(value)>>, FALSE)
    /\ UNCHANGED typeahead
    /\ UNCHANGED <<lifecycle, provider, range, data, loads, current, requests, hintInputs>>

\* the metrics browser reports a selector: onChangeQuery(selector, true), then it is closed
onChangeLabelBrowser(selector) ==
    /\ lifecycle = "mounted"
    /\ state.labelBrowserVisible
    /\ expr' = selector
    /\ state' = [state EXCEPT !.aiHelp = "", !.labelBrowserVisible = FALSE]
    /\ out' = Out("onChangeLabelBrowser", <<OnChangeCall(selector), OnRunQueryCall>>, FALSE)
    /\ UNCHANGED typeahead
    /\ UNCHANGED <<lifecycle, provider, range, data, loads, current, requests, hintInputs>>

\* the chooser button is disabled unless syntaxLoaded (and the provider has metrics)
onClickChooserButton ==
    /\ lifecycle = "mounted"
    /\ state.syntaxLoaded
    /\ state' = [state EXCEPT !.labelBrowserVisible = ~state.labelBrowserVisible]
    /\ out' = Out("onClickChooserButton", NoCalls, FALSE)
    /\ UNCHANGED typeahead
    /\ UNCHANGED <<lifecycle, provider, range, data, expr, loads, current, requests, hintInputs>>

\* the fix button is rendered when the hint has a fix; modified: datasource.modifyQuery's result
onClickHintFix(modified) ==
    /\ lifecycle = "mounted"
    /\ state.hint # NoHint
    /\ state.hint.fix # "none"
    /\ IF state.hint.fix = "action"
       THEN /\ expr' = modified
            /\ out' = Out("onClickHintFix", <<OnChangeCall(modified), OnRunQueryCall>>, FALSE)
       ELSE /\ expr' = expr
            /\ out' = Out("onClickHintFix", <<OnRunQueryCall>>, FALSE)
    /\ UNCHANGED typeahead
    /\ UNCHANGED <<lifecycle, provider, range, data, state, loads, current, requests, hintInputs>>

\* languageProvider.provideCompletionItems: nothing of the component changes
onTypeahead ==
    /\ lifecycle = "mounted"
    /\ out' = Out("onTypeahead", NoCalls, FALSE)
    /\ UNCHANGED typeahead
    /\ UNCHANGED <<lifecycle, provider, range, data, expr, state, loads, current, requests,
                   hintInputs>>

-----------------------------------------------------------------------------
(* Suggestions *)

HasAt(text, i, c) == i <= Len(text) /\ text[i] = c

\* typeaheadText.match(/^(!?=~?"|")/)
matchesQuote(text) ==
    \/ HasAt(text, 1, DQ)
    \/ LET p == IF HasAt(text, 1, "!") THEN 2 ELSE 1
           q == IF HasAt(text, p + 1, "~") THEN p + 2 ELSE p + 1
       IN  HasAt(text, p, "=") /\ HasAt(text, q, DQ)

willApplySuggestion(suggestion, typeaheadContext, typeaheadText, nextChar) ==
    CASE typeaheadContext = "context-labels" ->
            IF nextChar = "" \/ nextChar = "}" \/ nextChar = ","
            THEN suggestion \o <<"=">>
            ELSE suggestion
      [] typeaheadContext = "context-label-values" ->
            LET quoted == IF ~matchesQuote(typeaheadText)
                          THEN <<DQ>> \o suggestion
                          ELSE suggestion
            IN  IF nextChar # DQ THEN quoted \o <<DQ>> ELSE quoted
      [] OTHER -> suggestion

\* a suggestion is accepted: willApplySuggestion(suggestion, {typeaheadContext, typeaheadText})
ApplySuggestion(suggestion, typeaheadContext, typeaheadText, nextChar) ==
    /\ typeahead' = [suggestion |-> suggestion, context |-> typeaheadContext,
                     text |-> typeaheadText, nextChar |-> nextChar,
                     result |-> willApplySuggestion(suggestion, typeaheadContext,
                                                    typeaheadText, nextChar)]
    /\ UNCHANGED <<lifecycle, provider, range, data, expr, state, loads, current,
                   requests, hintInputs, out>>

-----------------------------------------------------------------------------
(* AI help *)

Idle(st) == st.aiHelp = "" /\ ~st.loadingAiHelp
Staged(st) == st.aiHelp # "" /\ ~st.loadingAiHelp

\* errors.map(message).filter(defined).at(0)
FirstMessage(errors) ==
    LET defined == SelectSeq(errors, LAMBDA m : m # Undefined)
    IN  IF Len(defined) > 0 THEN defined[1] ELSE Undefined

showAiHelpText_modalOnly(st, aiHelp) == [st EXCEPT !.showAiHelpModal = TRUE]

showAiHelpText(st, aiHelp) == [st EXCEPT !.showAiHelpModal = TRUE, !.aiHelp = aiHelp]

\* what createChatCompletion may resolve with: choices[0].message.content, a first
\* choice without message content, or no choice at all
Responses ==
    {[choice |-> "content", content |-> t] : t \in Texts}
        \cup {[choice |-> "noContent", content |-> ""], [choice |-> "none", content |-> ""]}

handleHelpButtonClick_notDisabled ==
    /\ lifecycle = "mounted"
    /\ state.hasError
    /\ Len(requests) < MaxRequests
    /\ state' = [state EXCEPT !.loadingAiHelp = TRUE]
    /\ requests' = Append(requests,
                          [query |-> expr,
                           error |-> FirstMessage(IF data.defined THEN data.errors ELSE <<>>)])
    /\ out' = Out("handleHelpButtonClick", NoCalls, FALSE)
    /\ UNCHANGED typeahead
    /\ UNCHANGED <<lifecycle, provider, range, data, expr, loads, current, hintInputs>>

\* the button is rendered when hasError and disabled while loadingAiHelp;
\* the handler up to its await of createChatCompletion
handleHelpButtonClick ==
    /\ lifecycle = "mounted"
    /\ state.hasError
    /\ ~state.loadingAiHelp
    /\ Len(requests) < MaxRequests
    /\ state' = [state EXCEPT !.loadingAiHelp = TRUE]
    /\ requests' = Append(requests,
                          [query |-> expr,
                           error |-> FirstMessage(IF data.defined THEN data.errors ELSE <<>>)])
    /\ out' = Out("handleHelpButtonClick", NoCalls, FALSE)
    /\ UNCHANGED typeahead
    /\ UNCHANGED <<lifecycle, provider, range, data, expr, loads, current, hintInputs>>

Remove(seq, k) == [j \in 1..(Len(seq) - 1) |-> IF j < k THEN seq[j] ELSE seq[j + 1]]

\* createChatCompletion of request k resolved with resp
AiResponded(k, resp) ==
    /\ k \in 1..Len(requests)
    /\ LET query == requests[k].query
           s1 == IF resp.choice = "none"
                 THEN state  \* choices[0] is undefined: the TypeError is caught and logged
                 ELSE showAiHelpText(state,
                                     IF resp.choice = "content" THEN resp.content ELSE query)
       IN  state' = [s1 EXCEPT !.loadingAiHelp = FALSE]
    /\ requests' = Remove(requests, k)
    /\ out' = [Out("handleHelpButtonClick", NoCalls, FALSE) EXCEPT !.arg = resp]
    /\ UNCHANGED typeahead
    /\ UNCHANGED <<lifecycle, provider, range, data, expr, loads, current, hintInputs>>

AiFailed_keepsLoading(k) ==
    /\ k \in 1..Len(requests)
    /\ state' = state
    /\ requests' = Remove(requests, k)
    /\ out' = [Out("handleHelpButtonClick", NoCalls, FALSE) EXCEPT !.arg = Rejected]
    /\ UNCHANGED typeahead
    /\ UNCHANGED <<lifecycle, provider, range, data, expr, loads, current, hintInputs>>

\* createChatCompletion of request k rejected: caught and logged
AiFailed(k) ==
    /\ k \in 1..Len(requests)
    /\ state' = [state EXCEPT !.loadingAiHelp = FALSE]
    /\ requests' = Remove(requests, k)
    /\ out' = [Out("handleHelpButtonClick", NoCalls, FALSE) EXCEPT !.arg = Rejected]
    /\ UNCHANGED typeahead
    /\ UNCHANGED <<lifecycle, provider, range, data, expr, loads, current, hintInputs>>

acceptAiHelp_noRun ==
    /\ lifecycle = "mounted"
    /\ state.aiHelp # ""
    /\ expr' = state.aiHelp
    /\ state' = [state EXCEPT !.aiHelp = ""]
    /\ out' = Out("acceptAiHelp", <<OnChangeCall(state.aiHelp)>>, FALSE)
    /\ UNCHANGED typeahead
    /\ UNCHANGED <<lifecycle, provider, range, data, loads, current, requests, hintInputs>>

\* Accept is rendered while state.aiHelp is non-empty
acceptAiHelp ==
    /\ lifecycle = "mounted"
    /\ state.aiHelp # ""
    /\ expr' = state.aiHelp
    /\ state' = [state EXCEPT !.aiHelp = ""]
    /\ out' = Out("acceptAiHelp", <<OnChangeCall(state.aiHelp), OnRunQueryCall>>, FALSE)
    /\ UNCHANGED typeahead
    /\ UNCHANGED <<lifecycle, provider, range, data, loads, current, requests, hintInputs>>

closeAiHelp_runs ==
    /\ lifecycle = "mounted"
    /\ state.aiHelp # ""
    /\ state' = [state EXCEPT !.aiHelp = ""]
    /\ out' = Out("closeAiHelp", <<OnRunQueryCall>>, FALSE)
    /\ UNCHANGED typeahead
    /\ UNCHANGED <<lifecycle, provider, range, data, expr, loads, current, requests, hintInputs>>

\* Close is rendered while state.aiHelp is non-empty
closeAiHelp ==
    /\ lifecycle = "mounted"
    /\ state.aiHelp # ""
    /\ state' = [state EXCEPT !.aiHelp = ""]
    /\ out' = Out("closeAiHelp", NoCalls, FALSE)
    /\ UNCHANGED typeahead
    /\ UNCHANGED <<lifecycle, provider, range, data, expr, loads, current, requests, hintInputs>>

-----------------------------------------------------------------------------
(* Specifications *)

LoadSteps ==
    \E i \in 1..MaxLoads :
        \/ \E tasksPending \in BOOLEAN : StartResolved(i, tasksPending)
        \/ StartRejected(i)
        \/ TasksResolved(i)
        \/ TasksRejected(i)

UserSteps ==
    \/ \E value \in Texts : onChangeQuery(value)
    \/ \E selector \in Texts : onChangeLabelBrowser(selector)
    \/ onClickChooserButton
    \/ \E modified \in Texts : onClickHintFix(modified)
    \/ onTypeahead
    \/ handleHelpButtonClick
    \/ acceptAiHelp
    \/ closeAiHelp

AiSteps ==
    \E k \in 1..MaxRequests :
        \/ \E resp \in Responses : AiResponded(k, resp)
        \/ AiFailed(k)

SuggestionSteps ==
    \E s \in Suggestions, c \in Contexts, t \in TypedTexts, n \in NextChars :
        ApplySuggestion(s, c, t, n)

Next ==
    \/ SuggestionSteps
    \/ componentDidMount
    \/ componentWillUnmount
    \/ \E p \in Providers, r \in Ranges \cup {NoRange}, d \in Datas \cup {NoData} :
          componentDidUpdate(p, r, d)
    \/ LoadSteps
    \/ UserSteps
    \/ AiSteps

Spec == Init /\ [][Next]_vars

\* The catalog side: the provider and the range change, the results do not
InitCatalog == Init /\ data = NoData /\ expr = "up"

NextCatalog ==
    \/ componentDidMount
    \/ componentWillUnmount
    \/ \E p \in Providers, r \in Ranges \cup {NoRange} : componentDidUpdate(p, r, data)
    \/ LoadSteps

SpecCatalog == InitCatalog /\ [][NextCatalog]_vars

\* The editor side: the results change and the user acts, the provider and the range stay
InitEditor == Init /\ provider = 1 /\ range = NoRange

NextEditor ==
    \/ componentDidMount
    \/ componentWillUnmount
    \/ \E d \in Datas \cup {NoData} : componentDidUpdate(provider, range, d)
    \/ LoadSteps
    \/ UserSteps
    \/ AiSteps

SpecEditor == InitEditor /\ [][NextEditor]_vars

\* The editor side when the service eventually answers: a pending createChatCompletion
\* does not stay pending forever, it resolves or rejects
SpecEditorLive == SpecEditor /\ WF_vars(AiSteps)

\* willApplySuggestion alone, on every combination of its inputs
InitSuggestion ==
    Init /\ provider = 1 /\ range = NoRange /\ data = NoData /\ expr = ""

SpecSuggestion == InitSuggestion /\ [][SuggestionSteps]_vars

-----------------------------------------------------------------------------
(* Properties *)

\* load i left the phase it was in: a continuation of that refreshMetrics call ran
Continued(i) == loads'[i].phase # loads[i].phase

\* the step is the click on the help button
ClickStep == out'.handler = "handleHelpButtonClick" /\ Len(requests') = Len(requests) + 1

\* the step is the continuation of createChatCompletion
SettleStep == out'.handler = "handleHelpButtonClick" /\ Len(requests') = Len(requests) - 1

\* C1: when refreshMetrics has been called again while an earlier load was pending,
\* no continuation of the earlier load changes syntaxLoaded: only the most
\* recently issued load may set it.
C1_SupersededLoadNeverSetsSyntaxLoaded ==
    [][\A i \in 1..Len(loads) :
          (i # current /\ Continued(i)) => state'.syntaxLoaded = state.syntaxLoaded]_vars

\* C2: once componentWillUnmount has run, no continuation of the load it cancelled
\* changes syntaxLoaded, whether the bootstrap or its sub-tasks were pending at the
\* unmount.
C2_NoSyntaxLoadedChangeAfterUnmount ==
    [][\A i \in 1..Len(loads) :
          (lifecycle = "unmounted" /\ loads[i].hasCanceled /\ Continued(i))
              => state'.syntaxLoaded = state.syntaxLoaded]_vars

\* C3: while syntaxLoaded is false after a provider change, the completion of a load
\* that was started against another provider than the current one leaves it false.
C3_PreviousProviderLoadLeavesSyntaxLoadedFalse ==
    [][\A i \in 1..Len(loads) :
          (loads[i].provider # provider /\ Continued(i) /\ ~state.syntaxLoaded)
              => ~state'.syntaxLoaded]_vars

\* C4: on an update with both ranges present and the provider unchanged, a refresh is
\* started exactly when the minute of the from instants or of the to instants differs.
C4_RefreshIffRoundedMinuteDiffers ==
    [][(/\ out'.handler = "componentDidUpdate"
        /\ provider' = provider
        /\ range.defined
        /\ range'.defined)
          => ((Len(loads') = Len(loads) + 1)
                <=> (\/ roundMsToMin(range'.from) # roundMsToMin(range.from)
                     \/ roundMsToMin(range'.to) # roundMsToMin(range.to)))]_vars

\* a refresh that only the range can have caused: two loads, both of the one provider
C4_Witness ==
    /\ out.handler = "componentDidUpdate"
    /\ Len(loads) = 2
    /\ loads[1].provider = provider
    /\ loads[2].provider = provider
    /\ range.defined

\* C5: the hint is the first initial hint (or none) when there are no series; the first
\* query hint when there are series and query hints; else the first initial hint (or none).
C5_HintSelection ==
    LET ih == hintInputs.initHints
        qh == hintInputs.queryHints
        initial == IF ih = <<>> THEN NoHint ELSE ih[1]
    IN  state.hint = IF hintInputs.noSeries THEN initial
                     ELSE IF qh # <<>> THEN qh[1]
                     ELSE initial

\* series present, both kinds of hint on offer, and the query hint was taken
C5_Witness ==
    /\ ~hintInputs.noSeries
    /\ hintInputs.initHints # <<>>
    /\ hintInputs.queryHints # <<>>
    /\ state.hint.label = "q1"

\* C6: from idle with an error, the click makes the session loading; and when the
\* service then answers with a non-empty rewrite, the session is staged (not loading)
\* holding exactly that text.
C6_RepairRequestThenStaged ==
    [][/\ (ClickStep /\ Idle(state) /\ hasErrors(data))
            => (state'.loadingAiHelp /\ state'.aiHelp = "")
       /\ (SettleStep /\ out'.arg.choice = "content" /\ out'.arg.content # "")
            => (Staged(state') /\ state'.aiHelp = out'.arg.content)]_vars

C6_Witness ==
    /\ out.handler = "handleHelpButtonClick"
    /\ out.arg = [choice |-> "content", content |-> "rate"]
    /\ state.aiHelp = "rate"
    /\ ~state.loadingAiHelp
    /\ expr = "up"

\* C7: from staged, acceptAiHelp calls onChange with the staged rewrite as expr, then
\* onRunQuery once, and leaves the session idle.
C7_AcceptAppliesStagedRewrite ==
    [][(out'.handler = "acceptAiHelp" /\ Staged(state))
          => /\ out'.calls = <<OnChangeCall(state.aiHelp), OnRunQueryCall>>
             /\ Idle(state')]_vars

C7_Witness ==
    /\ out.handler = "acceptAiHelp"
    /\ out.calls = <<OnChangeCall("rate"), OnRunQueryCall>>
    /\ Idle(state)

\* C8: from staged, closeAiHelp clears the staged text and leaves the session idle
\* without calling onChange or onRunQuery; the query text stays as it was.
C8_CloseDiscardsStagedRewrite ==
    [][(out'.handler = "closeAiHelp" /\ Staged(state))
          => /\ Idle(state')
             /\ out'.calls = NoCalls
             /\ expr' = expr]_vars

C8_Witness ==
    /\ out.handler = "closeAiHelp"
    /\ Idle(state)
    /\ state.showAiHelpModal

\* C9: when the AI call fails while the session is loading, the session is idle
\* afterwards (no staged text, not loading), onChange is not called and nothing is thrown.
C9_FailedRepairReturnsToIdle ==
    [][(SettleStep /\ out'.arg = Rejected /\ state.loadingAiHelp)
          => /\ Idle(state')
             /\ out'.calls = NoCalls
             /\ ~out'.threw]_vars

\* C10: a repair request is issued only when the latest results hold an error and no
\* request is loading; so at most one request is in flight at any time.
C10_OneRepairRequestAtATime ==
    [][/\ ClickStep => (hasErrors(data) /\ ~state.loadingAiHelp /\ requests = <<>>)
       /\ Len(requests') <= 1]_vars

C10_Witness ==
    /\ out.handler = "handleHelpButtonClick"
    /\ Len(requests) = 1
    /\ state.loadingAiHelp
    /\ hasErrors(data)

\* C11: after every query edit delivered through onChangeQuery (a text edit or a
\* label-browser selection) the staged rewrite is empty.
C11_EditClearsStagedRewrite ==
    out.handler \in {"onChangeQuery", "onChangeLabelBrowser"} => state.aiHelp = ""

\* an edit made after a response had been shown, and while a request is loading
C11_Witness ==
    /\ out.handler = "onChangeQuery"
    /\ state.showAiHelpModal
    /\ state.loadingAiHelp
    /\ state.aiHelp = ""

\* the number of onRunQuery calls among calls
RunQueryCalls(calls) == Cardinality({j \in 1..Len(calls) : calls[j] = OnRunQueryCall})

\* C12: a label-browser selection, a hint-fix click and a repair acceptance each call
\* onRunQuery (once, last); a plain text edit, closing a staged rewrite and a repair
\* request or response never call it.
C12_OnRunQueryCallers ==
    /\ out.handler \in {"onChangeLabelBrowser", "onClickHintFix", "acceptAiHelp"}
          => (RunQueryCalls(out.calls) = 1 /\ out.calls[Len(out.calls)] = OnRunQueryCall)
    /\ out.handler \in {"onChangeQuery", "closeAiHelp", "handleHelpButtonClick"}
          => RunQueryCalls(out.calls) = 0

C12_Witness ==
    /\ out.handler = "onChangeLabelBrowser"
    /\ out.calls = <<OnChangeCall("rate"), OnRunQueryCall>>

\* PromQL's label matching operators
MatcherOperators == {<<"=">>, <<"!", "=">>, <<"=", "~">>, <<"!", "~">>}

IsPrefix(pre, text) == Len(pre) <= Len(text) /\ SubSeq(text, 1, Len(pre)) = pre

\* the typed text starts with a quote, optionally preceded by a matcher operator
StartsWithQuote(text) ==
    \E op \in MatcherOperators \cup {<<>>} : IsPrefix(op \o <<DQ>>, text)

\* C13: willApplySuggestion returns, in context-labels, the suggestion with = appended
\* exactly when the next character is absent, } or a comma; in context-label-values, the
\* suggestion with a leading quote unless the typed text starts with a quote (optionally
\* after a matcher operator) and a closing quote unless the next character is a quote;
\* in every other context, the suggestion as it is.
C13_SuggestionApplied ==
    LET s == typeahead.suggestion
        n == typeahead.nextChar
    IN  typeahead.result =
            CASE typeahead.context = "context-labels" ->
                    IF n \in {"", "}", ","} THEN s \o <<"=">> ELSE s
              [] typeahead.context = "context-label-values" ->
                    (IF StartsWithQuote(typeahead.text) THEN <<>> ELSE <<DQ>>)
                        \o s \o (IF n = DQ THEN <<>> ELSE <<DQ>>)
              [] OTHER -> s

\* C14: when the bootstrap call or a sub-task of load i fails, refreshMetrics re-throws
\* exactly when load i has not been cancelled, and syntaxLoaded is left as it was.
C14_RethrowIffNotCancelled ==
    [][\A i \in 1..Len(loads) :
          (Continued(i) /\ out'.arg = Rejected)
              => /\ out'.threw <=> ~loads[i].hasCanceled
                 /\ state'.syntaxLoaded = state.syntaxLoaded]_vars

\* C15: when the service answers without a rewrite (no first choice, or a first choice
\* without message content), the session is staged (not loading) holding the query text
\* that was sent.
C15_NoRewriteStagesOriginalQuery ==
    [][\A k \in 1..Len(requests) :
          (SettleStep /\ Len(requests) = 1 /\ out'.arg.choice \in {"none", "noContent"})
              => /\ state'.aiHelp = requests[k].query
                 /\ ~state'.loadingAiHelp]_vars

\* C16: a step that starts a load or changes the current load handle is the mount, or
\* an update in which the provider changed or both ranges are present and differ in the
\* rounded minute of from or to; no other event does either.
C16_OnlyTriggersStartLoads ==
    [][(Len(loads') # Len(loads) \/ current' # current)
          => \/ out'.handler = "componentDidMount"
             \/ /\ out'.handler = "componentDidUpdate"
                /\ \/ provider' # provider
                   \/ /\ range.defined
                      /\ range'.defined
                      /\ \/ roundMsToMin(range'.from) # roundMsToMin(range.from)
                         \/ roundMsToMin(range'.to) # roundMsToMin(range.to)]_vars

\* an update that brought results with series and an error: still only the mount's load
C16_Witness ==
    /\ out.handler = "componentDidUpdate"
    /\ state.hasError
    /\ data.defined
    /\ data.series = 2
    /\ Len(loads) = 1
    /\ current = 1

\* C17: the mount recomputes the hint; an update that brings results whose series
\* collection is new (a different identity, or results after none) recomputes it from
\* those results; an update with the same series collection leaves the hint alone.
C17_HintRecomputedWhenResultsChange ==
    [][/\ out'.handler = "componentDidMount"
             => hintInputs'.noSeries = (~data'.defined \/ SeriesLength(data'.series) = 0)
       /\ (out'.handler = "componentDidUpdate" /\ data'.defined
             /\ (~data.defined \/ data'.series # data.series))
             => hintInputs'.noSeries = (SeriesLength(data'.series) = 0)
       /\ (out'.handler = "componentDidUpdate" /\ data'.defined /\ data.defined
             /\ data'.series = data.series)
             => (hintInputs' = hintInputs /\ state'.hint = state.hint)]_vars

\* C18: while the component is mounted, hasError is true exactly when the results it
\* was given carry at least one error, also right after a mount with such results.
C18_HasErrorTracksResults ==
    lifecycle = "mounted" => (state.hasError <=> hasErrors(data))

\* C19: the session is never loading while a staged rewrite is held.
C19_NeverLoadingWhileStaged ==
    ~(state.loadingAiHelp /\ state.aiHelp # "")

\* C20: a response that stages a rewrite was requested for the query text that is still
\* the live query when it arrives.
C20_StagedRewriteIsOfLiveQuery ==
    [][\A k \in 1..Len(requests) :
          (SettleStep /\ requests' = Remove(requests, k)
             /\ out'.arg.choice \in {"content", "noContent"} /\ state'.aiHelp # "")
              => requests[k].query = expr]_vars

\* C21: when the service eventually resolves or rejects every request, a session that
\* is loading eventually is not loading, whatever else happens in between.
C21_LoadingEventuallyEnds ==
    state.loadingAiHelp ~> ~state.loadingAiHelp

\* the service failed and the session is back to idle with no request pending
C21_Witness ==
    /\ out.handler = "handleHelpButtonClick"
    /\ out.arg = Rejected
    /\ ~state.loadingAiHelp
    /\ requests = <<>>

=============================================================================
